---- MODULE Spec2Model ----
(***************************************************************************)
(* A state-machine model of the dynamic universal RSA accumulator of       *)
(* mikelodder7/accumulator-rs: the accumulator (g, n, V, M), the           *)
(* hash-to-prime map, the membership and non-membership witnesses, the     *)
(* proofs of knowledge of exponent built from them, and the byte forms of  *)
(* the accumulator and of the proofs.                                      *)
(*                                                                         *)
(* The arithmetic is the arithmetic of the code with every width scaled    *)
(* down: members are MEMBER_SIZE_BITS-bit candidates instead of 256-bit    *)
(* ones, the digest has twice that width instead of 512 bits, and the      *)
(* safe primes of gen_primes are small safe primes p = 2p'+1 such that no  *)
(* candidate of MEMBER_SIZE_BITS bits divides (p-1)(q-1)/4, as no 256-bit  *)
(* member divides the 1023-bit p' or q' of the code.                       *)
(***************************************************************************)
EXTENDS Integers, Sequences, FiniteSets, TLC

(***************************************************************************)
(* Bounds of the model.                                                    *)
(***************************************************************************)
\* the byte strings offered to the operations are <<0>> .. <<NumElems-1>>
NumElems == 3
\* longest list handed to with_members
MaxLen == 3
\* longest byte string handed to hash_to_prime on its own
MaxInput == 2
\* longest list handed to a batch removal
MaxBatch == 2
\* most bytes cut from, or appended to, a serialized accumulator
MaxTamper == 2

(***************************************************************************)
(* Program constants (scaled).                                             *)
(***************************************************************************)
\* bits of one hashed prime (256 in the code)
MEMBER_SIZE_BITS == 4

\* the digest is twice as wide as a member (Blake2b-512 against 256 bits)
DigestSpace == (2 ^ MEMBER_SIZE_BITS) * (2 ^ MEMBER_SIZE_BITS)

MemberSpace == 2 ^ MEMBER_SIZE_BITS

Elements == { <<e>> : e \in 0 .. (NumElems - 1) }

(***************************************************************************)
(* Big-integer arithmetic.                                                 *)
(***************************************************************************)
RECURSIVE modpow(_, _, _)
\* BigUint::modpow / BigNumRef::mod_exp for a non-negative exponent:
\* square and multiply, every product reduced modulo m
modpow(base, exp, m) ==
    IF exp = 0 THEN 1 % m
    ELSE LET h == modpow(base, exp \div 2, m)
             s == (h * h) % m
         IN  IF exp % 2 = 1 THEN (s * (base % m)) % m ELSE s

RECURSIVE extended_gcd(_, _)
\* extended Euclid: <<g, x, y>> with g = a*x + b*y, g >= 0, x and y signed
extended_gcd(a, b) ==
    IF b = 0 THEN <<a, 1, 0>>
    ELSE LET r == extended_gcd(b, a % b)
         IN  <<r[1], r[3], r[2] - (a \div b) * r[3]>>

\* a^{-1} mod m for gcd(a, m) = 1
mod_inverse(a, m) == extended_gcd(a % m, m)[2] % m

\* BigInteger::mod_exp: a negative exponent first inverts the base modulo m
mod_exp(base, exp, m) ==
    IF exp < 0 THEN modpow(mod_inverse(base, m), 0 - exp, m)
    ELSE modpow(base, exp, m)

\* s.bezouts_coefficients(x): a pair (a, b) with a*s + b*x = gcd(s, x).  Which
\* of the pairs the library returns is not fixed by the contract; k selects
\* one of the pairs around the one extended Euclid yields.
bezouts_coefficients(s, x, k) ==
    LET r == extended_gcd(s, x)
    IN  [value |-> r[1], a |-> r[2] + k * x, b |-> r[3] - k * s]

\* the choices of k the model explores
BezoutShift == {0 - 1, 0, 1}

RECURSIVE SetProduct(_)
\* the product of a set of integers (par_iter().product()); 1 when empty
SetProduct(S) ==
    IF S = {} THEN 1
    ELSE LET m == CHOOSE y \in S : \A z \in S : z <= y
         IN  SetProduct(S \ {m}) * m

RECURSIVE SetProductMod(_, _)
\* reduce(|| 1, |v, m| (v * m) % t) over a set
SetProductMod(S, t) ==
    IF S = {} THEN 1
    ELSE LET m == CHOOSE y \in S : \A z \in S : z <= y
         IN  (SetProductMod(S \ {m}, t) * m) % t

(***************************************************************************)
(* Hash to prime.                                                          *)
(***************************************************************************)
RECURSIVE Blake2b(_)
\* the digest of a byte string, as an integer of DigestSpace: a fixed
\* deterministic mixing function over the cells of the input
Blake2b(data) ==
    IF data = <<>> THEN 89
    ELSE (Blake2b(SubSeq(data, 1, Len(data) - 1)) * 5
            + data[Len(data)] * 9 + 1) % DigestSpace

\* glass_pumpkin strong_check: primality
strong_check(num) ==
    /\ num > 1
    /\ \A d \in 2 .. (num - 1) : num % d # 0

\* hash[63] |= 1 and the bottom half of the digest as a big-endian integer
Candidate(input, i) ==
    LET low == Blake2b(input \o <<i>>) % MemberSpace
    IN  IF low % 2 = 1 THEN low ELSE low + 1

RECURSIVE hash_loop(_, _)
\* the loop of hash_to_prime from counter i on
hash_loop(input, i) ==
    LET num == Candidate(input, i)
    IN  IF strong_check(num) THEN num ELSE hash_loop(input, i + 1)

\* the primes of the byte strings in Elements, tabulated once
ElementPrime == [e \in Elements |-> hash_loop(e, 1)]

\* hash_to_prime starting its counter at 0
hash_to_prime_FromZero(input) == hash_loop(input, 0)

\* hash_to_prime: the loop from counter 1 (read from the table for an input
\* in Elements, where the table holds the loop's value)
hash_to_prime(input) ==
    IF input \in Elements THEN ElementPrime[input] ELSE hash_loop(input, 1)

(***************************************************************************)
(* Keys.                                                                   *)
(***************************************************************************)
\* what gen_primes() can return: <<generator, p, q>>, three safe primes.  A
\* run has one such vector (the fixed vector of the test build, or the one
\* drawn for the accumulator under study).
gen_primes == { <<7, 5, 47>>, <<11, 5, 59>> }

\* (p - 1) * (q - 1)
totient(primes) == (primes[2] - 1) * (primes[3] - 1)

(***************************************************************************)
(* The accumulator.                                                        *)
(***************************************************************************)
\* impl Default for Accumulator, with the primes gen_primes() returned
default(primes) ==
    [generator |-> primes[1],
     members   |-> {},
     modulus   |-> primes[2] * primes[3],
     value     |-> primes[1]]

\* the primes of a list of byte strings, collected into a BTreeSet
HashAll(m) == { hash_to_prime(m[j]) : j \in 1 .. Len(m) }

RECURSIVE ListProductMod(_, _)
\* the product of the primes of a list, entry by entry, modulo t
ListProductMod(m, t) ==
    IF m = <<>> THEN 1
    ELSE (ListProductMod(Tail(m), t) * hash_to_prime(Head(m))) % t

\* with_members collecting the primes into a Vec: repeats are multiplied in
with_members_NoDedup(m, primes) ==
    LET modulus == primes[2] * primes[3]
        exp     == ListProductMod(m, totient(primes))
    IN  [generator |-> primes[1],
         members   |-> HashAll(m),
         modulus   |-> modulus,
         value     |-> modpow(primes[1], exp, modulus)]

\* with_members reducing the exponent modulo n instead of the totient
with_members_ReduceByModulus(m, primes) ==
    LET members == HashAll(m)
        modulus == primes[2] * primes[3]
        exp     == SetProductMod(members, modulus)
    IN  [generator |-> primes[1],
         members   |-> members,
         modulus   |-> modulus,
         value     |-> modpow(primes[1], exp, modulus)]

\* Accumulator::with_members
with_members(m, primes) ==
    LET members == HashAll(m)
        modulus == primes[2] * primes[3]
        exp     == SetProductMod(members, totient(primes))
    IN  [generator |-> primes[1],
         members   |-> members,
         modulus   |-> modulus,
         value     |-> modpow(primes[1], exp, modulus)]

\* insert raising the generator, not the current value, to the new prime
insert_FromGenerator(self, value) ==
    LET p == hash_to_prime(value)
    IN  IF p \in self.members THEN self
        ELSE [generator |-> self.generator,
              members   |-> self.members \cup {p},
              modulus   |-> self.modulus,
              value     |-> modpow(self.generator, p, self.modulus)]

\* insert that updates V and forgets to record the prime in M
insert_KeepsMembers(self, value) ==
    LET p == hash_to_prime(value)
    IN  IF p \in self.members THEN self
        ELSE [generator |-> self.generator,
              members   |-> self.members,
              modulus   |-> self.modulus,
              value     |-> modpow(self.value, p, self.modulus)]

\* Accumulator::insert: returns a new accumulator
insert(self, value) ==
    LET p == hash_to_prime(value)
    IN  IF p \in self.members THEN self
        ELSE [generator |-> self.generator,
              members   |-> self.members \cup {p},
              modulus   |-> self.modulus,
              value     |-> modpow(self.value, p, self.modulus)]

\* insert_mut without the early return for a prime that is already a member
insert_mut_NoContainsCheck(self, value) ==
    LET p == hash_to_prime(value)
    IN  [self EXCEPT !.members = self.members \cup {p},
                     !.value = modpow(self.value, p, self.modulus)]

\* Accumulator::insert_mut: updates the accumulator in place
insert_mut(self, value) ==
    LET p == hash_to_prime(value)
    IN  IF p \in self.members THEN self
        ELSE [self EXCEPT !.members = self.members \cup {p},
                          !.value = modpow(self.value, p, self.modulus)]

(***************************************************************************)
(* Removal with the secret key.                                            *)
(***************************************************************************)
\* a failed Result: no value, the error kind
Err(self, kind) == [acc |-> self, err |-> kind]

\* a successful in-place update
Ok(self) == [acc |-> self, err |-> ""]

\* remove one element: absent -> InvalidMemberSupplied; otherwise
\* V := V^(x^{-1} mod phi) mod n and M := M \ {x}
remove_assign(self, key, value) ==
    LET x == hash_to_prime(value)
    IN  IF x \notin self.members THEN Err(self, "InvalidMemberSupplied")
        ELSE Ok([self EXCEPT
                   !.members = self.members \ {x},
                   !.value = modpow(self.value,
                                    mod_inverse(x, totient(key)),
                                    self.modulus)])

RECURSIVE remove_batch_OneByOne(_, _, _)
\* a batch removal that removes entry by entry and stops at the first
\* absent one, keeping what it has removed so far
remove_batch_OneByOne(self, key, values) ==
    IF values = <<>> THEN Ok(self)
    ELSE LET r == remove_assign(self, key, Head(values))
         IN  IF r.err # "" THEN r
             ELSE remove_batch_OneByOne(r.acc, key, Tail(values))

\* remove a batch: any absent element fails the whole batch before anything
\* changes; otherwise the inverse of the product of the primes, reduced
\* modulo phi, is the combined exponent
remove_batch_assign(self, key, values) ==
    LET xs == HashAll(values)
    IN  IF \E x \in xs : x \notin self.members
        THEN Err(self, "InvalidMemberSupplied")
        ELSE Ok([self EXCEPT
                   !.members = self.members \ xs,
                   !.value = modpow(self.value,
                                    mod_inverse(SetProductMod(xs, totient(key)),
                                                totient(key)),
                                    self.modulus)])

(***************************************************************************)
(* Membership witnesses.                                                   *)
(***************************************************************************)
\* a witness constructor's Result; a membership witness uses (u, x), a
\* non-membership witness (a, b, x)
NoWitness == [u |-> 0, x |-> 0, a |-> 0, b |-> 0]

WitnessErr(kind) == [err |-> kind, wit |-> NoWitness]

WitnessOk(w) == [err |-> "", wit |-> w]

\* new_prime without the filter: the exponent is the product of all of M
MembershipWitness_new_prime_NoFilter(accumulator, x) ==
    IF x \notin accumulator.members
    THEN WitnessErr("InvalidMemberSupplied")
    ELSE LET exp == SetProduct(accumulator.members)
         IN  WitnessOk([NoWitness EXCEPT
                 !.u = mod_exp(accumulator.generator, exp, accumulator.modulus),
                 !.x = x])

\* new_prime raising the current value, not the generator
MembershipWitness_new_prime_FromValue(accumulator, x) ==
    IF x \notin accumulator.members
    THEN WitnessErr("InvalidMemberSupplied")
    ELSE LET exp == SetProduct({ b \in accumulator.members : b # x })
         IN  WitnessOk([NoWitness EXCEPT
                 !.u = mod_exp(accumulator.value, exp, accumulator.modulus),
                 !.x = x])

\* MembershipWitness::new_prime (accumulator-rsa)
MembershipWitness_new_prime(accumulator, x) ==
    IF x \notin accumulator.members
    THEN WitnessErr("InvalidMemberSupplied")
    ELSE LET exp == SetProduct({ b \in accumulator.members : b # x })
         IN  WitnessOk([NoWitness EXCEPT
                 !.u = mod_exp(accumulator.generator, exp, accumulator.modulus),
                 !.x = x])

\* MembershipWitness::new (accumulator-rsa)
MembershipWitness_new(accumulator, x) ==
    MembershipWitness_new_prime(accumulator, hash_to_prime(x))

\* MembershipWitness::with_prime_and_secret_key: returns Self, not a Result
MembershipWitness_with_prime_and_secret_key(accumulator, secret_key, x) ==
    IF x \notin accumulator.members
    THEN WitnessOk([NoWitness EXCEPT !.u = accumulator.value, !.x = x])
    ELSE LET exp == SetProductMod({ b \in accumulator.members : b # x },
                                  totient(secret_key))
         IN  WitnessOk([NoWitness EXCEPT
                 !.u = mod_exp(accumulator.generator, exp, accumulator.modulus),
                 !.x = x])

\* MembershipWitness::with_secret_key
MembershipWitness_with_secret_key(accumulator, secret_key, x) ==
    MembershipWitness_with_prime_and_secret_key(accumulator, secret_key,
                                                hash_to_prime(x))

\* MembershipWitness::new of the OpenSSL-backed crate (src/rsa)
rsa_MembershipWitness_new(accumulator, value) ==
    LET x == hash_to_prime(value)
    IN  IF x \notin accumulator.members
        THEN WitnessErr("InvalidMemberSupplied")
        ELSE LET exp == SetProduct({ b \in accumulator.members : b # x })
             IN  WitnessOk([NoWitness EXCEPT
                     !.u = modpow(accumulator.generator, exp, accumulator.modulus),
                     !.x = x])

\* MembershipWitness::with_secret_key of the OpenSSL-backed crate (src/rsa)
rsa_MembershipWitness_with_secret_key(accumulator, secret_key, value) ==
    LET x == hash_to_prime(value)
    IN  IF x \notin accumulator.members
        THEN WitnessOk([NoWitness EXCEPT !.u = accumulator.value, !.x = x])
        ELSE LET exp == SetProductMod({ b \in accumulator.members : b # x },
                                      totient(secret_key))
             IN  WitnessOk([NoWitness EXCEPT
                     !.u = modpow(accumulator.generator, exp, accumulator.modulus),
                     !.x = x])

(***************************************************************************)
(* Non-membership witnesses.                                               *)
(***************************************************************************)
\* new_prime raising g to the magnitude of b, dropping its sign
NonMembershipWitness_new_prime_UnsignedB(accumulator, x, k) ==
    IF x \in accumulator.members
    THEN WitnessErr("InvalidMemberSupplied")
    ELSE LET s == SetProduct(accumulator.members)
             gcd_res == bezouts_coefficients(s, x, k)
             mag == IF gcd_res.b < 0 THEN 0 - gcd_res.b ELSE gcd_res.b
         IN  WitnessOk([NoWitness EXCEPT
                 !.a = gcd_res.a,
                 !.b = mod_exp(accumulator.generator, mag,
                               accumulator.modulus),
                 !.x = x])

\* new_prime without the test that x is a member
NonMembershipWitness_new_prime_NoContainsCheck(accumulator, x, k) ==
    LET s == SetProduct(accumulator.members)
        gcd_res == bezouts_coefficients(s, x, k)
    IN  WitnessOk([NoWitness EXCEPT
            !.a = gcd_res.a,
            !.b = mod_exp(accumulator.generator, gcd_res.b,
                          accumulator.modulus),
            !.x = x])

\* NonMembershipWitness::new_prime; k is the Bezout pair the library returns
NonMembershipWitness_new_prime(accumulator, x, k) ==
    IF x \in accumulator.members
    THEN WitnessErr("InvalidMemberSupplied")
    ELSE LET s == SetProduct(accumulator.members)
             gcd_res == bezouts_coefficients(s, x, k)
         IN  WitnessOk([NoWitness EXCEPT
                 !.a = gcd_res.a,
                 !.b = mod_exp(accumulator.generator, gcd_res.b,
                               accumulator.modulus),
                 !.x = x])

\* NonMembershipWitness::new
NonMembershipWitness_new(accumulator, x, k) ==
    NonMembershipWitness_new_prime(accumulator, hash_to_prime(x), k)

(***************************************************************************)
(* Bytes.  A byte of the model holds ByteBits bits, so that MEMBER_SIZE    *)
(* bytes hold MEMBER_SIZE_BITS bits and FACTOR_SIZE bytes hold one factor  *)
(* of the modulus, as in the code.                                         *)
(***************************************************************************)
\* bits of one byte (8 in the code)
ByteBits == 4

ByteSpace == 2 ^ ByteBits

\* bits of one factor of the modulus (1024 in the code)
MIN_SIZE_PRIME == 8

\* bytes of one factor of the modulus
FACTOR_SIZE == MIN_SIZE_PRIME \div ByteBits

\* bytes of one member (32 in the code)
MEMBER_SIZE == 1

\* the byte strings offered as nonces
Nonces == { <<2>>, <<3>> }

RECURSIVE to_bytes_be(_)
\* BigUint::to_bytes_be: big-endian, no leading zero byte, zero is <<0>>
to_bytes_be(b) ==
    IF b < ByteSpace THEN <<b>>
    ELSE Append(to_bytes_be(b \div ByteSpace), b % ByteSpace)

\* BigInteger::to_bytes: the magnitude, unsigned big-endian
to_bytes(b) == to_bytes_be(IF b < 0 THEN 0 - b ELSE b)

RECURSIVE from_bytes_be(_)
\* BigUint::from_bytes_be / BigInteger::try_from(&[u8])
from_bytes_be(data) ==
    IF data = <<>> THEN 0
    ELSE from_bytes_be(SubSeq(data, 1, Len(data) - 1)) * ByteSpace
            + data[Len(data)]

\* what a serializer yields when an assert! or a slice bound aborts it: a
\* string of one cell that is no byte
Panic == << 0 - 1 >>

\* vec![0u8; expected_size] with the bytes bt copied to its end
PadLeft(bt, expected_size) ==
    IF expected_size >= Len(bt)
    THEN [i \in 1 .. (expected_size - Len(bt)) |-> 0] \o bt
    ELSE Panic

\* b2fa of accumulator-rsa
b2fa(b, expected_size) == PadLeft(to_bytes(b), expected_size)

RECURSIVE Concat(_)
\* the parts of an output appended in order; an aborted part aborts it all
Concat(parts) ==
    IF parts = <<>> THEN <<>>
    ELSE LET rest == Concat(Tail(parts))
         IN  IF Head(parts) = Panic \/ rest = Panic THEN Panic
             ELSE Head(parts) \o rest

(***************************************************************************)
(* Field: arithmetic modulo n.                                             *)
(***************************************************************************)
Field_exp(n, a, k) == mod_exp(a, k, n)

Field_mul(n, a, b) == (a * b) % n

Field_inv(n, a) == mod_inverse(a, n)

\* BigInteger::div_rem(a, b) for b > 0: a = q*b + r with 0 <= r < b
div_rem(a, b) == <<a \div b, a % b>>

(***************************************************************************)
(* Proofs of knowledge of exponent.                                        *)
(***************************************************************************)
\* g || m || v || u || z || n1
Transcript(g, modulus, value, u, z, nonce) ==
    to_bytes(g) \o to_bytes(modulus) \o to_bytes(value) \o to_bytes(u)
        \o to_bytes(z) \o nonce

\* l = H2P(data)
ChallengePrime(data) == hash_to_prime(data)

\* the Fiat-Shamir x = H(data || l), the whole digest as an integer
ChallengeAlpha(data, l) == Blake2b(data \o to_bytes(l))

NoPoke2Proof == [u |-> 0, z |-> 0, q |-> 0, r |-> 0]

\* Poke2Proof::new dividing towards zero: the remainder takes the sign of
\* x_in
Poke2Proof_new_TruncatedRemainder(x_in, u, a, accumulator, nonce) ==
    LET n == accumulator.modulus
        g == Field_exp(n, accumulator.generator, from_bytes_be(nonce))
        z == Field_exp(n, g, x_in)
        data == Transcript(g, n, a, u, z, nonce)
        l == ChallengePrime(data)
        x == ChallengeAlpha(data, l)
        whole == IF x_in < 0 THEN 0 - ((0 - x_in) \div l) ELSE x_in \div l
        r == x_in - whole * l
        q1 == Field_exp(n, u, whole)
        q2 == Field_exp(n, g, x * whole)
    IN  [u |-> u, z |-> z, q |-> Field_mul(n, q1, q2), r |-> r]

\* Poke2Proof::new(x_in, u, a, accumulator, nonce)
Poke2Proof_new(x_in, u, a, accumulator, nonce) ==
    LET n == accumulator.modulus
        g == Field_exp(n, accumulator.generator, from_bytes_be(nonce))
        z == Field_exp(n, g, x_in)
        data == Transcript(g, n, a, u, z, nonce)
        l == ChallengePrime(data)
        x == ChallengeAlpha(data, l)
        dr == div_rem(x_in, l)
        whole == dr[1]
        q1 == Field_exp(n, u, whole)
        q2 == Field_exp(n, g, x * whole)
    IN  [u |-> u, z |-> z, q |-> Field_mul(n, q1, q2), r |-> dr[2]]

\* Poke2Proof::verify(&self, accumulator, nonce)
Poke2Proof_verify(self, accumulator, nonce) ==
    LET n == accumulator.modulus
        g == Field_exp(n, accumulator.generator, from_bytes_be(nonce))
        data == Transcript(g, n, accumulator.value, self.u, self.z, nonce)
        l == ChallengePrime(data)
        x == ChallengeAlpha(data, l)
        p1 == Field_exp(n, self.q, l)
        p2 == Field_exp(n, self.u, self.r)
        p3 == Field_exp(n, g, x * self.r)
        left == Field_mul(n, p1, Field_mul(n, p2, p3))
        right == Field_mul(n, accumulator.value, Field_exp(n, self.z, x))
    IN  left = right

\* Poke2Proof::verify_with(&self, value, accumulator, nonce): the value is
\* put into a clone of the accumulator
Poke2Proof_verify_with(self, value, accumulator, nonce) ==
    LET acc == [accumulator EXCEPT !.value = value]
    IN  Poke2Proof_verify(self, acc, nonce)

\* MembershipProof::new with Q = u^q, the factor g^(q * alpha) left out
MembershipProof_new_QWithoutGenerator(witness, accumulator, nonce) ==
    LET n == accumulator.modulus
        z == Field_exp(n, accumulator.generator, witness.x)
        data == Transcript(accumulator.generator, n, accumulator.value,
                           witness.u, z, nonce)
        l == ChallengePrime(data)
        dr == div_rem(witness.x, l)
    IN  [u |-> witness.u, z |-> z, q |-> Field_exp(n, witness.u, dr[1]),
         r |-> dr[2]]

\* MembershipProof::new(witness, accumulator, nonce)
MembershipProof_new(witness, accumulator, nonce) ==
    LET n == accumulator.modulus
        z == Field_exp(n, accumulator.generator, witness.x)
        data == Transcript(accumulator.generator, n, accumulator.value,
                           witness.u, z, nonce)
        l == ChallengePrime(data)
        x == ChallengeAlpha(data, l)
        dr == div_rem(witness.x, l)
        whole == dr[1]
        q1 == Field_exp(n, witness.u, whole)
        q2 == Field_exp(n, accumulator.generator, x * whole)
    IN  [u |-> witness.u, z |-> z, q |-> Field_mul(n, q1, q2), r |-> dr[2]]

\* MembershipProof::verify(&self, accumulator, nonce)
MembershipProof_verify(self, accumulator, nonce) ==
    LET n == accumulator.modulus
        data == Transcript(accumulator.generator, n, accumulator.value,
                           self.u, self.z, nonce)
        l == ChallengePrime(data)
        x == ChallengeAlpha(data, l)
        p1 == Field_exp(n, self.q, l)
        p2 == Field_exp(n, self.u, self.r)
        p3 == Field_exp(n, accumulator.generator, x * self.r)
        left == Field_mul(n, p1, Field_mul(n, p2, p3))
        right == Field_mul(n, accumulator.value, Field_exp(n, self.z, x))
    IN  left = right

\* BigNumRef::to_vec: the magnitude, big-endian, no byte for zero
to_vec(b) == IF b = 0 THEN <<>> ELSE to_bytes(b)

\* MembershipProof::new of the OpenSSL-backed crate (src/rsa): u^q is raised
\* to the BigNum q the code has just created, which is zero
rsa_MembershipProof_new(witness, accumulator, nonce) ==
    LET n == accumulator.modulus
        z == modpow(accumulator.generator, witness.x, n)
        data == to_vec(accumulator.generator) \o to_vec(n)
                  \o to_vec(accumulator.value) \o to_vec(witness.u)
                  \o to_vec(z) \o nonce
        l == hash_to_prime(data)
        x == Blake2b(data \o to_vec(l))
        whole == witness.x \div l
        r == witness.x % l
        q == 0
        t == x * whole
        q1 == modpow(witness.u, q, n)
        q2 == modpow(accumulator.generator, t, n)
    IN  [u |-> witness.u, z |-> z, q |-> (q1 * q2) % n, r |-> r]

\* MembershipProof::verify of the OpenSSL-backed crate (src/rsa)
rsa_MembershipProof_verify(self, accumulator, nonce) ==
    LET n == accumulator.modulus
        data == to_vec(accumulator.generator) \o to_vec(n)
                  \o to_vec(accumulator.value) \o to_vec(self.u)
                  \o to_vec(self.z) \o nonce
        l == hash_to_prime(data)
        x == Blake2b(data \o to_vec(l))
        p1 == modpow(self.q, l, n)
        p2 == modpow(self.u, self.r, n)
        p3 == modpow(accumulator.generator, x * self.r, n)
        left == (p3 * ((p1 * p2) % n)) % n
        right == (modpow(self.z, x, n) * accumulator.value) % n
    IN  left = right

NoNonMembershipProof ==
    [v |-> 0, r |-> 0, q |-> 0, z |-> 0, proof_g |-> NoPoke2Proof]

\* NonMembershipProof::new raising V to the magnitude of a, dropping its sign
NonMembershipProof_new_UnsignedA(witness, accumulator, nonce) ==
    LET n == accumulator.modulus
        mag == IF witness.a < 0 THEN 0 - witness.a ELSE witness.a
        v == Field_exp(n, accumulator.value, mag)
        v_inv == Field_inv(n, v)
        gv_inv == Field_mul(n, accumulator.generator, v_inv)
        proof_v == Poke2Proof_new(witness.a, accumulator.value, v,
                                  accumulator, nonce)
        proof_g == Poke2Proof_new(witness.x, witness.b, gv_inv,
                                  accumulator, nonce)
    IN  [v |-> v, r |-> proof_v.r, q |-> proof_v.q, z |-> proof_v.z,
         proof_g |-> proof_g]

\* NonMembershipProof::new(witness, accumulator, nonce)
NonMembershipProof_new(witness, accumulator, nonce) ==
    LET n == accumulator.modulus
        v == Field_exp(n, accumulator.value, witness.a)
        v_inv == Field_inv(n, v)
        gv_inv == Field_mul(n, accumulator.generator, v_inv)
        proof_v == Poke2Proof_new(witness.a, accumulator.value, v,
                                  accumulator, nonce)
        proof_g == Poke2Proof_new(witness.x, witness.b, gv_inv,
                                  accumulator, nonce)
    IN  [v |-> v, r |-> proof_v.r, q |-> proof_v.q, z |-> proof_v.z,
         proof_g |-> proof_g]

\* NonMembershipProof::verify(&self, accumulator, nonce)
NonMembershipProof_verify(self, accumulator, nonce) ==
    LET n == accumulator.modulus
        v_inv == Field_inv(n, self.v)
        gv_inv == Field_mul(n, accumulator.generator, v_inv)
        proof_v == [u |-> accumulator.value, r |-> self.r, q |-> self.q,
                    z |-> self.z]
        v_res == Poke2Proof_verify_with(proof_v, self.v, accumulator, nonce)
        g_res == Poke2Proof_verify_with(self.proof_g, gv_inv, accumulator,
                                        nonce)
    IN  g_res /\ v_res

(***************************************************************************)
(* Serialization.                                                          *)
(***************************************************************************)
NoMembershipProof == NoPoke2Proof

NoAccumulator == [generator |-> 0, members |-> {}, modulus |-> 0, value |-> 0]

\* MIN_BYTES of src/rsa/src/accumulator.rs
MIN_BYTES == FACTOR_SIZE * 5 + 4

\* Poke2Proof::SIZE_BYTES
SIZE_BYTES == 6 * FACTOR_SIZE + MEMBER_SIZE

\* b2fa of src/rsa without the padding: the bytes of b as they are
rsa_b2fa_NoPadding(b, expected_size) == to_bytes_be(b)

\* b2fa of src/rsa
rsa_b2fa(b, expected_size) == PadLeft(to_bytes_be(b), expected_size)

\* (k as u32).to_be_bytes()
u32_to_be_bytes(k) ==
    [i \in 1 .. 4 |-> (k \div (ByteSpace ^ (4 - i))) % ByteSpace]

RECURSIVE BTreeSetIter(_)
\* the members of a BTreeSet in the order of its iterator: ascending
BTreeSetIter(S) ==
    IF S = {} THEN <<>>
    ELSE LET m == CHOOSE a \in S : \A b \in S : a <= b
         IN  <<m>> \o BTreeSetIter(S \ {m})

\* Accumulator::to_bytes
Accumulator_to_bytes(self) ==
    LET it == BTreeSetIter(self.members)
    IN  Concat(<<rsa_b2fa(self.generator, FACTOR_SIZE),
                 rsa_b2fa(self.value, FACTOR_SIZE * 2),
                 rsa_b2fa(self.modulus, FACTOR_SIZE * 2),
                 u32_to_be_bytes(Cardinality(self.members))>>
               \o [i \in 1 .. Len(it) |-> rsa_b2fa(it[i], MEMBER_SIZE)])

\* what a try_from returns: an error and no object, or the object
Parsed(err, a, mem, nonmem) ==
    [err |-> err, acc |-> a, mem |-> mem, nonmem |-> nonmem]

ParseErr(kind) ==
    Parsed(kind, NoAccumulator, NoMembershipProof, NoNonMembershipProof)

\* a try_from that reads the fixed fields and no member
Accumulator_try_from_NoMembers(data) ==
    IF Len(data) < MIN_BYTES THEN ParseErr("Expected size")
    ELSE Parsed("",
                [generator |-> from_bytes_be(SubSeq(data, 1, FACTOR_SIZE)),
                 members |-> {},
                 modulus |-> from_bytes_be(SubSeq(data, 3 * FACTOR_SIZE + 1,
                                                  5 * FACTOR_SIZE)),
                 value |-> from_bytes_be(SubSeq(data, FACTOR_SIZE + 1,
                                                3 * FACTOR_SIZE))],
                NoMembershipProof, NoNonMembershipProof)

\* Accumulator::try_from(&[u8]); a slice that ends past the data aborts
Accumulator_try_from(data) ==
    IF Len(data) < MIN_BYTES THEN ParseErr("Expected size")
    ELSE LET generator == from_bytes_be(SubSeq(data, 1, FACTOR_SIZE))
             value == from_bytes_be(SubSeq(data, FACTOR_SIZE + 1,
                                           3 * FACTOR_SIZE))
             modulus == from_bytes_be(SubSeq(data, 3 * FACTOR_SIZE + 1,
                                             5 * FACTOR_SIZE))
             member_count == from_bytes_be(SubSeq(data, 5 * FACTOR_SIZE + 1,
                                                  5 * FACTOR_SIZE + 4))
             first == 5 * FACTOR_SIZE + 4
         IN  IF first + member_count * MEMBER_SIZE > Len(data)
             THEN ParseErr("panic")
             ELSE Parsed("",
                         [generator |-> generator,
                          members |->
                              { from_bytes_be(
                                    SubSeq(data,
                                           first + (i - 1) * MEMBER_SIZE + 1,
                                           first + i * MEMBER_SIZE)) :
                                i \in 1 .. member_count },
                          modulus |-> modulus,
                          value |-> value],
                         NoMembershipProof, NoNonMembershipProof)

\* Poke2Proof::to_bytes
Poke2Proof_to_bytes(self) ==
    Concat(<<b2fa(self.u, 2 * FACTOR_SIZE), b2fa(self.z, 2 * FACTOR_SIZE),
             b2fa(self.q, 2 * FACTOR_SIZE), b2fa(self.r, MEMBER_SIZE)>>)

\* the four fields read by the try_from of a proof of four fields
ReadPoke2(data) ==
    [u |-> from_bytes_be(SubSeq(data, 1, 2 * FACTOR_SIZE)),
     z |-> from_bytes_be(SubSeq(data, 2 * FACTOR_SIZE + 1, 4 * FACTOR_SIZE)),
     q |-> from_bytes_be(SubSeq(data, 4 * FACTOR_SIZE + 1, 6 * FACTOR_SIZE)),
     r |-> from_bytes_be(SubSeq(data, 6 * FACTOR_SIZE + 1, Len(data)))]

\* Poke2Proof::try_from(&[u8]); the proof is returned in the field mem
Poke2Proof_try_from(data) ==
    IF Len(data) # SIZE_BYTES THEN ParseErr("SerializationError")
    ELSE Parsed("", NoAccumulator, ReadPoke2(data), NoNonMembershipProof)

\* MembershipProof::to_bytes
MembershipProof_to_bytes(self) ==
    Concat(<<b2fa(self.u, 2 * FACTOR_SIZE), b2fa(self.z, 2 * FACTOR_SIZE),
             b2fa(self.q, 2 * FACTOR_SIZE), b2fa(self.r, MEMBER_SIZE)>>)

\* MembershipProof::try_from(&[u8]); a slice that ends past the data aborts
MembershipProof_try_from(data) ==
    IF Len(data) # FACTOR_SIZE * 3 + MEMBER_SIZE
    THEN ParseErr("SerializationError")
    ELSE IF Len(data) < 6 * FACTOR_SIZE THEN ParseErr("panic")
    ELSE Parsed("", NoAccumulator, ReadPoke2(data), NoNonMembershipProof)

\* NonMembershipProof::to_bytes
NonMembershipProof_to_bytes(self) ==
    Concat(<<b2fa(self.v, 2 * FACTOR_SIZE), b2fa(self.z, 2 * FACTOR_SIZE),
             b2fa(self.q, 2 * FACTOR_SIZE), b2fa(self.r, MEMBER_SIZE),
             Poke2Proof_to_bytes(self.proof_g)>>)

\* NonMembershipProof::try_from(&[u8])
NonMembershipProof_try_from(data) ==
    IF Len(data) # SIZE_BYTES * 2 + 2 * FACTOR_SIZE
    THEN ParseErr("SerializationError")
    ELSE LET v == from_bytes_be(SubSeq(data, 1, 2 * FACTOR_SIZE))
             z == from_bytes_be(SubSeq(data, 2 * FACTOR_SIZE + 1,
                                       4 * FACTOR_SIZE))
             q == from_bytes_be(SubSeq(data, 4 * FACTOR_SIZE + 1,
                                       6 * FACTOR_SIZE))
             end == 6 * FACTOR_SIZE + MEMBER_SIZE
             r == from_bytes_be(SubSeq(data, 6 * FACTOR_SIZE + 1, end))
             proof_g == Poke2Proof_try_from(SubSeq(data, end + 1, Len(data)))
         IN  IF proof_g.err # "" THEN ParseErr(proof_g.err)
             ELSE Parsed("", NoAccumulator, NoMembershipProof,
                         [v |-> v, r |-> r, q |-> q, z |-> z,
                          proof_g |-> proof_g.mem])

(***************************************************************************)
(* The state machine: one accumulator, the secret primes it was built      *)
(* from, and a record of the last operation with what it returned: `last`  *)
(* for its name, arguments, error and witness, `proof` for the proof it    *)
(* built or was called on, `ret` for what an operation on a proof or a     *)
(* serializer returned.                                                    *)
(***************************************************************************)
VARIABLES primes, acc, last, proof, ret, hashing

vars == <<primes, acc, last, proof, ret, hashing>>

\* no proof was built or used by the last operation
NoProof ==
    [kind |-> "none", nonce |-> <<>>, wit |-> NoWitness,
     mem |-> NoMembershipProof, nonmem |-> NoNonMembershipProof]

\* the last operation returned no verdict, no bytes and no parsed object
NoReturn ==
    [ok |-> FALSE, bytes |-> <<>>, err |-> "", mem |-> NoMembershipProof,
     nonmem |-> NoNonMembershipProof, acc |-> NoAccumulator]

\* no call of hash_to_prime was made
NoHash == [input |-> <<>>, i |-> 0, num |-> 0, pc |-> "idle"]

\* an operation that neither builds nor takes a proof and returns nothing
\* but what `last` records
NotOnProof == proof' = NoProof /\ ret' = NoReturn

\* the lists of byte strings of at most n entries
ListsUpTo(n) == UNION { [1 .. k -> Elements] : k \in 0 .. n }

\* the lists handed to with_members
Lists == ListsUpTo(MaxLen)

\* the lists handed to a batch removal
BatchLists == ListsUpTo(MaxBatch)

\* the integers handed to the constructors that take a prime
PrimeArgs == 1 .. (MemberSpace - 1)

\* the record of an operation: its name, its arguments (a list of byte
\* strings, or an integer x), the accumulator before it, and its result
Record(op, arg, x, pre, err, wit) ==
    [op |-> op, arg |-> arg, x |-> x, pre |-> pre, err |-> err, wit |-> wit]

Init ==
    /\ primes \in gen_primes
    /\ acc = default(primes)
    /\ last = Record("default", <<>>, 0, acc, "", NoWitness)
    /\ proof = NoProof
    /\ ret = NoReturn
    /\ hashing = NoHash

\* Accumulator::new() / Accumulator::default()
Default ==
    /\ acc' = default(primes)
    /\ last' = Record("default", <<>>, 0, acc', "", NoWitness)
    /\ UNCHANGED <<primes, hashing>>
    /\ NotOnProof

\* Accumulator::with_members(m)
WithMembers ==
    \E m \in Lists :
        /\ acc' = with_members(m, primes)
        /\ last' = Record("with_members", m, 0, acc', "", NoWitness)
        /\ UNCHANGED <<primes, hashing>>
        /\ NotOnProof

\* acc = acc.insert(e)
Insert ==
    \E e \in Elements :
        /\ acc' = insert(acc, e)
        /\ last' = Record("insert", <<e>>, 0, acc, "", NoWitness)
        /\ UNCHANGED <<primes, hashing>>
        /\ NotOnProof

\* acc.insert_mut(e)
InsertMut ==
    \E e \in Elements :
        /\ acc' = insert_mut(acc, e)
        /\ last' = Record("insert_mut", <<e>>, 0, acc, "", NoWitness)
        /\ UNCHANGED <<primes, hashing>>
        /\ NotOnProof

\* acc.remove_assign(&key, e)
RemoveAssign ==
    \E e \in Elements :
        LET r == remove_assign(acc, primes, e)
        IN  /\ acc' = r.acc
            /\ last' = Record("remove", <<e>>, 0, acc, r.err, NoWitness)
            /\ UNCHANGED <<primes, hashing>>
            /\ NotOnProof

\* acc.remove_batch_assign(&key, es)
RemoveBatchAssign ==
    \E es \in BatchLists :
        LET r == remove_batch_assign(acc, primes, es)
        IN  /\ acc' = r.acc
            /\ last' = Record("remove_batch", es, 0, acc, r.err, NoWitness)
            /\ UNCHANGED <<primes, hashing>>
            /\ NotOnProof

\* MembershipWitness::new(&acc, e)
MemWitnessNew ==
    \E e \in Elements :
        LET r == MembershipWitness_new(acc, e)
        IN  /\ last' = Record("MembershipWitness::new", <<e>>, 0, acc,
                              r.err, r.wit)
            /\ UNCHANGED <<primes, acc, hashing>>
            /\ NotOnProof

\* MembershipWitness::new_prime(&acc, x)
MemWitnessNewPrime ==
    \E x \in PrimeArgs :
        LET r == MembershipWitness_new_prime(acc, x)
        IN  /\ last' = Record("MembershipWitness::new_prime", <<>>, x, acc,
                              r.err, r.wit)
            /\ UNCHANGED <<primes, acc, hashing>>
            /\ NotOnProof

\* MembershipWitness::with_secret_key(&acc, &key, e)
MemWitnessWithSecretKey ==
    \E e \in Elements :
        LET r == MembershipWitness_with_secret_key(acc, primes, e)
        IN  /\ last' = Record("MembershipWitness::with_secret_key", <<e>>, 0,
                              acc, r.err, r.wit)
            /\ UNCHANGED <<primes, acc, hashing>>
            /\ NotOnProof

\* MembershipWitness::with_prime_and_secret_key(&acc, &key, x)
MemWitnessWithPrimeAndSecretKey ==
    \E x \in PrimeArgs :
        LET r == MembershipWitness_with_prime_and_secret_key(acc, primes, x)
        IN  /\ last' = Record("MembershipWitness::with_prime_and_secret_key",
                              <<>>, x, acc, r.err, r.wit)
            /\ UNCHANGED <<primes, acc, hashing>>
            /\ NotOnProof

\* MembershipWitness::new(&acc, e) of src/rsa
RsaMemWitnessNew ==
    \E e \in Elements :
        LET r == rsa_MembershipWitness_new(acc, e)
        IN  /\ last' = Record("rsa::MembershipWitness::new", <<e>>, 0, acc,
                              r.err, r.wit)
            /\ UNCHANGED <<primes, acc, hashing>>
            /\ NotOnProof

\* MembershipWitness::with_secret_key(&acc, &key, e) of src/rsa
RsaMemWitnessWithSecretKey ==
    \E e \in Elements :
        LET r == rsa_MembershipWitness_with_secret_key(acc, primes, e)
        IN  /\ last' = Record("rsa::MembershipWitness::with_secret_key",
                              <<e>>, 0, acc, r.err, r.wit)
            /\ UNCHANGED <<primes, acc, hashing>>
            /\ NotOnProof

\* NonMembershipWitness::new(&acc, e)
NonMemWitnessNew ==
    \E e \in Elements, k \in BezoutShift :
        LET r == NonMembershipWitness_new(acc, e, k)
        IN  /\ last' = Record("NonMembershipWitness::new", <<e>>, 0, acc,
                              r.err, r.wit)
            /\ UNCHANGED <<primes, acc, hashing>>
            /\ NotOnProof

\* NonMembershipWitness::new_prime(&acc, x)
NonMemWitnessNewPrime ==
    \E x \in PrimeArgs, k \in BezoutShift :
        LET r == NonMembershipWitness_new_prime(acc, x, k)
        IN  /\ last' = Record("NonMembershipWitness::new_prime", <<>>, x, acc,
                              r.err, r.wit)
            /\ UNCHANGED <<primes, acc, hashing>>
            /\ NotOnProof

\* a verdict returned by verify
Verdict(b) == [NoReturn EXCEPT !.ok = b]

\* MembershipProof::new(&witness, &acc, nonce), the witness being the one
\* MembershipWitness::new has just returned
MemProofNew ==
    \E nonce \in Nonces :
        /\ last.op = "MembershipWitness::new"
        /\ last.err = ""
        /\ proof' = [NoProof EXCEPT
                        !.kind = "mem",
                        !.nonce = nonce,
                        !.wit = last.wit,
                        !.mem = MembershipProof_new(last.wit, acc, nonce)]
        /\ ret' = NoReturn
        /\ last' = Record("MembershipProof::new", <<nonce>>, 0, acc, "",
                          NoWitness)
        /\ UNCHANGED <<primes, acc, hashing>>

\* proof.verify(&acc, nonce) of a membership proof
MemProofVerify ==
    \E nonce \in Nonces :
        /\ proof.kind = "mem"
        /\ ret' = Verdict(MembershipProof_verify(proof.mem, acc, nonce))
        /\ last' = Record("MembershipProof::verify", <<nonce>>, 0, acc, "",
                          NoWitness)
        /\ UNCHANGED <<primes, acc, proof, hashing>>

\* MembershipProof::new(&witness, &acc, nonce) of src/rsa, the witness being
\* the one its MembershipWitness::new has just returned
RsaMemProofNew ==
    \E nonce \in Nonces :
        /\ last.op = "rsa::MembershipWitness::new"
        /\ last.err = ""
        /\ proof' = [NoProof EXCEPT
                        !.kind = "rsa::mem",
                        !.nonce = nonce,
                        !.wit = last.wit,
                        !.mem = rsa_MembershipProof_new(last.wit, acc, nonce)]
        /\ ret' = NoReturn
        /\ last' = Record("rsa::MembershipProof::new", <<nonce>>, 0, acc, "",
                          NoWitness)
        /\ UNCHANGED <<primes, acc, hashing>>

\* proof.verify(&acc, nonce) of a membership proof of src/rsa
RsaMemProofVerify ==
    \E nonce \in Nonces :
        /\ proof.kind = "rsa::mem"
        /\ ret' = Verdict(rsa_MembershipProof_verify(proof.mem, acc, nonce))
        /\ last' = Record("rsa::MembershipProof::verify", <<nonce>>, 0, acc,
                          "", NoWitness)
        /\ UNCHANGED <<primes, acc, proof, hashing>>

\* NonMembershipProof::new(&witness, &acc, nonce), the witness being the one
\* NonMembershipWitness::new has just returned
NonMemProofNew ==
    \E nonce \in Nonces :
        /\ last.op = "NonMembershipWitness::new"
        /\ last.err = ""
        /\ proof' = [NoProof EXCEPT
                        !.kind = "nonmem",
                        !.nonce = nonce,
                        !.wit = last.wit,
                        !.nonmem = NonMembershipProof_new(last.wit, acc, nonce)]
        /\ ret' = NoReturn
        /\ last' = Record("NonMembershipProof::new", <<nonce>>, 0, acc, "",
                          NoWitness)
        /\ UNCHANGED <<primes, acc, hashing>>

\* a verify that puts the value it substitutes into the caller's
\* accumulator instead of a clone
NonMemProofVerify_SubstitutesInPlace ==
    \E nonce \in Nonces :
        /\ proof.kind = "nonmem"
        /\ ret' = Verdict(NonMembershipProof_verify(proof.nonmem, acc, nonce))
        /\ last' = Record("NonMembershipProof::verify", <<nonce>>, 0, acc,
                          "", NoWitness)
        /\ acc' = [acc EXCEPT !.value = proof.nonmem.v]
        /\ UNCHANGED <<primes, proof, hashing>>

\* proof.verify(&acc, nonce) of a non-membership proof
NonMemProofVerify ==
    \E nonce \in Nonces :
        /\ proof.kind = "nonmem"
        /\ ret' = Verdict(NonMembershipProof_verify(proof.nonmem, acc, nonce))
        /\ last' = Record("NonMembershipProof::verify", <<nonce>>, 0, acc,
                          "", NoWitness)
        /\ UNCHANGED <<primes, acc, proof, hashing>>

\* what a serializer returned
Bytes(b) == [NoReturn EXCEPT !.bytes = b]

\* what a try_from returned for the bytes it was given
FromBytes(b, r) ==
    [NoReturn EXCEPT !.bytes = b, !.err = r.err, !.acc = r.acc,
                     !.mem = r.mem, !.nonmem = r.nonmem]

\* acc.to_bytes()
AccToBytes ==
    /\ ret' = Bytes(Accumulator_to_bytes(acc))
    /\ last' = Record("Accumulator::to_bytes", <<>>, 0, acc, "", NoWitness)
    /\ proof' = NoProof
    /\ UNCHANGED <<primes, acc, hashing>>

\* Accumulator::try_from(bytes), the bytes being the ones to_bytes has just
\* returned
AccTryFrom ==
    /\ last.op = "Accumulator::to_bytes"
    /\ ret.bytes # Panic
    /\ ret' = FromBytes(ret.bytes, Accumulator_try_from(ret.bytes))
    /\ last' = Record("Accumulator::try_from", <<ret.bytes>>, 0, acc, "",
                      NoWitness)
    /\ proof' = NoProof
    /\ UNCHANGED <<primes, acc, hashing>>

\* the byte strings a caller can make of the bytes b: some of the last bytes
\* cut off, some zero bytes appended
Tampered(b) ==
    { SubSeq(b, 1, Len(b) - cut) \o [i \in 1 .. extra |-> 0] :
        cut \in 0 .. MaxTamper, extra \in 0 .. MaxTamper }

\* Accumulator::try_from(data) for data that need not be what to_bytes wrote
AccTryFromData ==
    /\ last.op = "Accumulator::to_bytes"
    /\ ret.bytes # Panic
    /\ \E data \in Tampered(ret.bytes) :
          /\ ret' = FromBytes(data, Accumulator_try_from(data))
          /\ last' = Record("Accumulator::try_from(data)", <<data>>, 0, acc,
                            "", NoWitness)
    /\ proof' = NoProof
    /\ UNCHANGED <<primes, acc, hashing>>

\* proof.to_bytes() of a membership proof
MemProofToBytes ==
    /\ proof.kind = "mem"
    /\ ret' = Bytes(MembershipProof_to_bytes(proof.mem))
    /\ last' = Record("MembershipProof::to_bytes", <<>>, 0, acc, "",
                      NoWitness)
    /\ UNCHANGED <<primes, acc, proof, hashing>>

\* MembershipProof::try_from(bytes), the bytes being the ones to_bytes has
\* just returned
MemProofTryFrom ==
    /\ last.op = "MembershipProof::to_bytes"
    /\ ret.bytes # Panic
    /\ ret' = FromBytes(ret.bytes, MembershipProof_try_from(ret.bytes))
    /\ last' = Record("MembershipProof::try_from", <<ret.bytes>>, 0, acc, "",
                      NoWitness)
    /\ UNCHANGED <<primes, acc, proof, hashing>>

\* proof.to_bytes() of a non-membership proof
NonMemProofToBytes ==
    /\ proof.kind = "nonmem"
    /\ ret' = Bytes(NonMembershipProof_to_bytes(proof.nonmem))
    /\ last' = Record("NonMembershipProof::to_bytes", <<>>, 0, acc, "",
                      NoWitness)
    /\ UNCHANGED <<primes, acc, proof, hashing>>

\* NonMembershipProof::try_from(bytes), the bytes being the ones to_bytes
\* has just returned
NonMemProofTryFrom ==
    /\ last.op = "NonMembershipProof::to_bytes"
    /\ ret.bytes # Panic
    /\ ret' = FromBytes(ret.bytes, NonMembershipProof_try_from(ret.bytes))
    /\ last' = Record("NonMembershipProof::try_from", <<ret.bytes>>, 0, acc,
                      "", NoWitness)
    /\ UNCHANGED <<primes, acc, proof, hashing>>

\* the byte strings hash_to_prime is called with on its own
HashInputs ==
    UNION { [1 .. k -> 0 .. (ByteSpace - 1)] : k \in 0 .. MaxInput }

\* hash_to_prime(input), up to the loop: the counter i is 1 and its bytes are
\* appended to the input
HashToPrime ==
    /\ hashing.pc = "idle"
    /\ \E input \in HashInputs :
          hashing' = [input |-> input, i |-> 1, num |-> 0, pc |-> "loop"]
    /\ UNCHANGED <<primes, acc, last, proof, ret>>

\* one turn of the loop of hash_to_prime: the candidate of the counter is
\* returned if it passes strong_check, else the counter is incremented
HashIterate ==
    /\ hashing.pc = "loop"
    /\ LET num == Candidate(hashing.input, hashing.i)
       IN  hashing' = IF strong_check(num)
                      THEN [hashing EXCEPT !.num = num, !.pc = "done"]
                      ELSE [hashing EXCEPT !.num = num, !.i = hashing.i + 1]
    /\ UNCHANGED <<primes, acc, last, proof, ret>>

(***************************************************************************)
(* Spec: the life of an accumulator, its constructors and mutators.        *)
(***************************************************************************)
Next ==
    \/ Default
    \/ WithMembers
    \/ Insert
    \/ InsertMut
    \/ RemoveAssign
    \/ RemoveBatchAssign

Spec == Init /\ [][Next]_vars

(***************************************************************************)
(* WitnessSpec: witnesses built for every accumulator that insertion and   *)
(* removal reach from the empty one.                                       *)
(***************************************************************************)
WitnessNext ==
    \/ Default
    \/ InsertMut
    \/ RemoveAssign
    \/ MemWitnessNew
    \/ MemWitnessNewPrime
    \/ MemWitnessWithSecretKey
    \/ MemWitnessWithPrimeAndSecretKey
    \/ RsaMemWitnessNew
    \/ RsaMemWitnessWithSecretKey
    \/ NonMemWitnessNew
    \/ NonMemWitnessNewPrime

WitnessSpec == Init /\ [][WitnessNext]_vars

(***************************************************************************)
(* ProofSpec: proofs built from the witnesses of every accumulator that    *)
(* insertion reaches from the empty one, then verified, serialized and     *)
(* read back.                                                              *)
(***************************************************************************)
ProofNext ==
    \/ Default
    \/ InsertMut
    \/ MemWitnessNew
    \/ MemWitnessNewPrime
    \/ NonMemWitnessNew
    \/ NonMemWitnessNewPrime
    \/ MemProofNew
    \/ MemProofVerify
    \/ NonMemProofNew
    \/ NonMemProofVerify
    \/ MemProofToBytes
    \/ MemProofTryFrom
    \/ NonMemProofToBytes
    \/ NonMemProofTryFrom

ProofSpec == Init /\ [][ProofNext]_vars

(***************************************************************************)
(* WireSpec: every accumulator the constructors and the insert operations  *)
(* reach, serialized and read back, as written or cut or extended.         *)
(***************************************************************************)
WireNext ==
    \/ Default
    \/ WithMembers
    \/ Insert
    \/ InsertMut
    \/ AccToBytes
    \/ AccTryFrom
    \/ AccTryFromData

WireSpec == Init /\ [][WireNext]_vars

\* hash_to_prime returns num to its caller
HashReturn ==
    /\ hashing.pc = "done"
    /\ hashing' = NoHash
    /\ UNCHANGED <<primes, acc, last, proof, ret>>

(***************************************************************************)
(* RsaProofSpec: the membership witnesses and proofs of the OpenSSL-backed *)
(* crate, over the accumulators insert_mut can reach.                      *)
(***************************************************************************)
RsaProofNext ==
    \/ Default
    \/ InsertMut
    \/ RsaMemWitnessNew
    \/ RsaMemProofNew
    \/ RsaMemProofVerify

RsaProofSpec == Init /\ [][RsaProofNext]_vars

(***************************************************************************)
(* HashSpec: calls of hash_to_prime, one turn of its loop at a time.       *)
(***************************************************************************)
HashNext ==
    \/ HashToPrime
    \/ HashIterate
    \/ HashReturn

HashSpec == Init /\ [][HashNext]_vars

(***************************************************************************)
(* Properties of the accumulator (checked under Spec).                     *)
(***************************************************************************)
\* invariant I1 of an accumulator a: V = g^(product of M) mod n
I1(a) == a.value = modpow(a.generator, SetProduct(a.members), a.modulus)

\* the prime of the single byte string a recorded operation was given
ArgPrime == hash_to_prime(last.arg[1])

\* C1: in every state reached from new()/default() or with_members by
\* insert, insert_mut and remove, V = g^(product of the primes in M) mod n;
\* a fresh accumulator has M empty and V = g.
C1_ValueIsGeneratorToProduct ==
    /\ I1(acc)
    /\ last.op = "default" => acc.members = {} /\ acc.value = acc.generator

\* C1 witness: a removal has left an accumulator of two or more members
C1_Witness ==
    /\ last.op = "remove"
    /\ last.err = ""
    /\ Cardinality(acc.members) >= 2

\* C2: inserting an element whose prime is already a member (a second
\* insert of it) leaves V and M exactly as they were, with insert and with
\* insert_mut; so two inserts of e grow |M| by one, not by two.
C2_InsertIdempotent ==
    /\ (last.op \in {"insert", "insert_mut"} /\ ArgPrime \in last.pre.members)
          => acc = last.pre
    /\ \A e \in Elements :
          /\ insert(insert(acc, e), e) = insert(acc, e)
          /\ insert_mut(insert_mut(acc, e), e) = insert_mut(acc, e)
          /\ Cardinality(insert(insert(acc, e), e).members)
                <= Cardinality(acc.members) + 1
          /\ Cardinality(insert_mut(insert_mut(acc, e), e).members)
                <= Cardinality(acc.members) + 1

\* C2 witness: insert_mut was given an element that was already a member
C2_Witness ==
    /\ last.op = "insert_mut"
    /\ ArgPrime \in last.pre.members
    /\ Cardinality(acc.members) >= 2

\* C3: for an element e whose prime is not in M, inserting e and then
\* removing e with the secret key gives back the same accumulator (V, n, M
\* and g).
C3_InsertRemoveRoundTrip ==
    \A e \in Elements :
        hash_to_prime(e) \notin acc.members =>
            /\ remove_assign(insert(acc, e), primes, e) = Ok(acc)
            /\ remove_assign(insert_mut(acc, e), primes, e) = Ok(acc)

\* C3 witness: a removal has just undone an insert into a non-empty
\* accumulator
C3_Witness ==
    /\ last.op = "remove"
    /\ last.err = ""
    /\ acc.members # {}
    /\ ArgPrime \notin acc.members
    /\ last.pre = insert(acc, last.arg[1])

\* some element of the recorded list is no member of the accumulator before
SomeAbsent == \E j \in 1 .. Len(last.arg) :
                  hash_to_prime(last.arg[j]) \notin last.pre.members

\* C4: removing an element whose prime is not in M fails with
\* InvalidMemberSupplied and leaves (g, n, V, M) unchanged; a batch removal
\* holding any absent element fails with nothing removed and V unchanged.
C4_FailedRemoveChangesNothing ==
    (last.op \in {"remove", "remove_batch"} /\ SomeAbsent)
        => /\ last.err = "InvalidMemberSupplied"
           /\ acc = last.pre

\* C4 witness: a batch of one member and one non-member was refused
C4_Witness ==
    /\ last.op = "remove_batch"
    /\ SomeAbsent
    /\ \E j \in 1 .. Len(last.arg) :
           hash_to_prime(last.arg[j]) \in last.pre.members

\* the set of the entries of a list
SetOf(m) == { m[j] : j \in 1 .. Len(m) }

\* C5: with_members depends only on the set of its input: every list with
\* the same set of elements (a permutation, or one with repeats) gives the
\* same V and the same M.
C5_WithMembersOfSet ==
    last.op = "with_members" =>
        \A m \in Lists :
            SetOf(m) = SetOf(last.arg) => with_members(m, primes) = acc

\* C5 witness: with_members was given three different elements, whose
\* product exceeds the totient
C5_Witness ==
    /\ last.op = "with_members"
    /\ Cardinality(SetOf(last.arg)) = 3
    /\ SetProduct(acc.members) > totient(primes)

RECURSIVE InsertAll(_, _)
\* for m in &members { acc.insert_mut(m) }
InsertAll(a, m) ==
    IF m = <<>> THEN a
    ELSE InsertAll(insert_mut(a, Head(m)), Tail(m))

\* C6: with_members (product reduced modulo the totient) gives the V (and
\* M) that inserting the elements one by one into the empty accumulator
\* over the same g and n gives.
C6_SecretAndPublicPathAgree ==
    last.op = "with_members" =>
        /\ acc.value = InsertAll(default(primes), last.arg).value
        /\ acc = InsertAll(default(primes), last.arg)

\* C6 witness: the product of the primes of the list exceeds the totient,
\* so that with_members did reduce the exponent
C6_Witness ==
    /\ last.op = "with_members"
    /\ Len(last.arg) = 3
    /\ SetProduct(HashAll(last.arg)) > totient(primes)
    /\ acc.value # acc.generator

(***************************************************************************)
(* Properties of the witnesses (checked under WitnessSpec).                *)
(***************************************************************************)
\* the constructors of a membership witness that take a byte string
MemWitnessNewOps == {"MembershipWitness::new", "rsa::MembershipWitness::new"}

\* C7: for an element e whose prime x is in M, MembershipWitness::new(A, e)
\* returns (u, x) with u^x mod n = A.V.
C7_MembershipWitnessCorrect ==
    (last.op \in MemWitnessNewOps /\ ArgPrime \in last.pre.members)
        => /\ last.err = ""
           /\ last.wit.x = ArgPrime
           /\ modpow(last.wit.u, last.wit.x, last.pre.modulus) = last.pre.value

\* C7 witness: a witness was built for a member of an accumulator of two
\* or more members
C7_Witness ==
    /\ last.op = "MembershipWitness::new"
    /\ last.err = ""
    /\ Cardinality(last.pre.members) >= 2
    /\ last.wit.u # last.pre.generator

\* C8: the u of MembershipWitness::new(A, e) for a member e is the value of
\* the accumulator after e is removed from A with the secret key.
C8_WitnessIsValueWithoutMember ==
    (last.op \in MemWitnessNewOps /\ last.err = "")
        => LET r == remove_assign(last.pre, primes, last.arg[1])
           IN  /\ r.err = ""
               /\ r.acc.value = last.wit.u
               /\ last.wit.u = modpow(last.pre.generator,
                                      SetProduct(last.pre.members \ {ArgPrime}),
                                      last.pre.modulus)

\* C8 witness: a witness of the OpenSSL-backed crate for a member of an
\* accumulator of two or more members
C8_Witness ==
    /\ last.op = "rsa::MembershipWitness::new"
    /\ last.err = ""
    /\ Cardinality(last.pre.members) >= 2

\* the prime a recorded witness constructor was asked about
AskedPrime == IF last.arg = <<>> THEN last.x ELSE ArgPrime

\* the four constructors of a membership witness
MemWitnessOps ==
    {"MembershipWitness::new",
     "MembershipWitness::new_prime",
     "MembershipWitness::with_secret_key",
     "MembershipWitness::with_prime_and_secret_key"}

\* C9: every constructor of a membership witness (new, new_prime,
\* with_secret_key, with_prime_and_secret_key) asked about a prime that is
\* not in M fails with InvalidMemberSupplied and returns no witness.
C9_AbsentMemberIsRefused ==
    (last.op \in MemWitnessOps /\ AskedPrime \notin last.pre.members)
        => /\ last.err = "InvalidMemberSupplied"
           /\ last.wit = NoWitness

\* C10: for an element e whose prime x is not in M (M may be empty),
\* NonMembershipWitness::new(A, e) returns (a, b_hat, x) with
\* V^a * b_hat^x mod n = g, a a signed Bezout coefficient of (product of
\* M, x) and b_hat = g^b mod n for the matching b.
C10_NonMembershipWitnessCorrect ==
    (last.op = "NonMembershipWitness::new" /\ ArgPrime \notin last.pre.members)
        => LET n == last.pre.modulus
               w == last.wit
               s == SetProduct(last.pre.members)
           IN  /\ last.err = ""
               /\ w.x = ArgPrime
               /\ (mod_exp(last.pre.value, w.a, n) * modpow(w.b, w.x, n)) % n
                     = last.pre.generator
               /\ (1 - w.a * s) % w.x = 0
               /\ w.b = mod_exp(last.pre.generator, (1 - w.a * s) \div w.x, n)

\* C10 witness: a witness with a negative coefficient a, for an accumulator
\* of two or more members
C10_Witness ==
    /\ last.op = "NonMembershipWitness::new"
    /\ last.err = ""
    /\ last.wit.a < 0
    /\ Cardinality(last.pre.members) >= 2

\* the two constructors of a non-membership witness
NonMemWitnessOps ==
    {"NonMembershipWitness::new", "NonMembershipWitness::new_prime"}

\* C11: a non-membership witness asked for an element (or a prime) whose
\* prime x is in M is refused with InvalidMemberSupplied, and no witness is
\* returned.
C11_PresentMemberIsRefused ==
    (last.op \in NonMemWitnessOps /\ AskedPrime \in last.pre.members)
        => /\ last.err = "InvalidMemberSupplied"
           /\ last.wit = NoWitness

\* C11 witness: NonMembershipWitness::new was refused for a member of an
\* accumulator of two or more members
C11_Witness ==
    /\ last.op = "NonMembershipWitness::new"
    /\ ArgPrime \in last.pre.members
    /\ Cardinality(last.pre.members) >= 2
    /\ last.err = "InvalidMemberSupplied"

(***************************************************************************)
(* Properties of the proofs (checked under ProofSpec).                     *)
(***************************************************************************)
\* the nonce a recorded operation on a proof was given
ArgNonce == last.arg[1]

\* C12: a membership proof built from the witness MembershipWitness::new
\* returned for a member of A, with any nonce, is accepted by verify with
\* the same accumulator and the same nonce.
C12_MembershipProofComplete ==
    /\ (last.op = "MembershipProof::verify" /\ ArgNonce = proof.nonce)
          => ret.ok
    /\ last.op = "MembershipProof::new"
          => MembershipProof_verify(proof.mem, acc, proof.nonce)

\* C12 witness: a proof whose quotient x div l is not zero (Q is not 1) was
\* accepted for an accumulator of two or more members
C12_Witness ==
    /\ last.op = "MembershipProof::verify"
    /\ ArgNonce = proof.nonce
    /\ ret.ok
    /\ proof.mem.q # 1
    /\ Cardinality(acc.members) >= 2

\* C13: a non-membership proof built from the witness
\* NonMembershipWitness::new returned for a non-member of A (its coefficient
\* a negative or not), with any nonce, is accepted by verify with the same
\* accumulator and the same nonce: both composed checks pass, the one of
\* w = V^a with u = A.V and the one of w = g * V^(-a) with u = b_hat.
C13_NonMembershipProofComplete ==
    /\ (last.op = "NonMembershipProof::verify" /\ ArgNonce = proof.nonce)
          => ret.ok
    /\ last.op = "NonMembershipProof::new"
          => LET P == proof.nonmem
                 n == acc.modulus
                 gv_inv == Field_mul(n, acc.generator, Field_inv(n, P.v))
                 proof_v == [u |-> acc.value, r |-> P.r, q |-> P.q, z |-> P.z]
             IN  /\ P.v = Field_exp(n, acc.value, proof.wit.a)
                 /\ P.proof_g.u = proof.wit.b
                 /\ Poke2Proof_verify_with(proof_v, P.v, acc, proof.nonce)
                 /\ Poke2Proof_verify_with(P.proof_g, gv_inv, acc,
                                           proof.nonce)

\* C13 witness: a proof built from a witness with a negative coefficient a
\* was accepted, for an accumulator of two or more members
C13_Witness ==
    /\ last.op = "NonMembershipProof::verify"
    /\ ArgNonce = proof.nonce
    /\ ret.ok
    /\ proof.wit.a < 0
    /\ proof.nonmem.q # 1
    /\ Cardinality(acc.members) >= 2

\* the two verify operations
VerifyOps == {"MembershipProof::verify", "NonMembershipProof::verify"}

\* C15: a proof built with one nonce is rejected by verify with the same
\* accumulator and any other nonce, for membership proofs and for
\* non-membership proofs.
C15_NonceBinding ==
    (last.op \in VerifyOps /\ ArgNonce # proof.nonce) => ~ret.ok

\* the operations that are given the accumulator by shared reference
ReadOnlyOps ==
    {"MembershipWitness::new", "MembershipWitness::new_prime",
     "NonMembershipWitness::new", "NonMembershipWitness::new_prime",
     "MembershipProof::new", "MembershipProof::verify",
     "NonMembershipProof::new", "NonMembershipProof::verify"}

\* C16: building a witness, building a proof and verifying a proof leave the
\* accumulator they are given as it was: the same g, n, V and M after the
\* call as before it (verify_with puts the value it is given into a clone).
C16_ReadOnlyOpsKeepAccumulator ==
    last.op \in ReadOnlyOps
        => /\ acc.generator = last.pre.generator
           /\ acc.modulus = last.pre.modulus
           /\ acc.value = last.pre.value
           /\ acc.members = last.pre.members

\* C16 witness: a non-membership proof was accepted, its two checks made
\* with a value V^a that is not the V of the accumulator
C16_Witness ==
    /\ last.op = "NonMembershipProof::verify"
    /\ ret.ok
    /\ proof.nonmem.v # acc.value
    /\ Cardinality(acc.members) >= 2
    /\ acc = last.pre

(***************************************************************************)
(* Properties of the serialized accumulator (checked under WireSpec).      *)
(***************************************************************************)
\* C17: for every accumulator A the constructors and the insert operations
\* reach, Accumulator::try_from(A.to_bytes()) succeeds and returns an
\* accumulator equal to A in generator, value, modulus and members.
C17_AccumulatorRoundTrip ==
    /\ last.op = "Accumulator::to_bytes" => ret.bytes # Panic
    /\ last.op = "Accumulator::try_from"
          => /\ ret.err = ""
             /\ ret.acc.generator = acc.generator
             /\ ret.acc.value = acc.value
             /\ ret.acc.modulus = acc.modulus
             /\ ret.acc.members = acc.members

\* C17 witness: an accumulator of two or more members, whose value is not
\* its generator, was read back from its bytes
C17_Witness ==
    /\ last.op = "Accumulator::try_from"
    /\ ret.err = ""
    /\ Cardinality(acc.members) >= 2
    /\ acc.value # acc.generator
    /\ ret.acc = acc

\* the bytes of a serialized accumulator from offset `from` (0-based), `len`
\* of them, as a big-endian integer
WireInt(from, len) == from_bytes_be(SubSeq(ret.bytes, from + 1, from + len))

\* C18: the serialized accumulator is MIN_BYTES + MEMBER_SIZE * |M| bytes
\* long with MIN_BYTES = 5 * FACTOR_SIZE + 4: g in FACTOR_SIZE bytes, V and
\* n in 2 * FACTOR_SIZE bytes each, a 4-byte big-endian count equal to |M|,
\* then the members in ascending order, MEMBER_SIZE bytes each; the
\* accumulator of default() serializes to exactly MIN_BYTES bytes.
C18_AccumulatorLayout ==
    last.op = "Accumulator::to_bytes"
        => LET k == Cardinality(acc.members)
               first == 5 * FACTOR_SIZE + 4
               member(i) == WireInt(first + (i - 1) * MEMBER_SIZE, MEMBER_SIZE)
           IN  /\ MIN_BYTES = 5 * FACTOR_SIZE + 4
               /\ Len(ret.bytes) = MIN_BYTES + MEMBER_SIZE * k
               /\ \A i \in 1 .. Len(ret.bytes) :
                     ret.bytes[i] \in 0 .. (ByteSpace - 1)
               /\ WireInt(0, FACTOR_SIZE) = acc.generator
               /\ WireInt(FACTOR_SIZE, 2 * FACTOR_SIZE) = acc.value
               /\ WireInt(3 * FACTOR_SIZE, 2 * FACTOR_SIZE) = acc.modulus
               /\ WireInt(5 * FACTOR_SIZE, 4) = k
               /\ { member(i) : i \in 1 .. k } = acc.members
               /\ \A i \in 1 .. k : \A j \in 1 .. k :
                     i < j => member(i) < member(j)
               /\ acc = default(primes) => Len(ret.bytes) = MIN_BYTES

\* C18 witness: an accumulator of two or more members, with a value that
\* does not fill its field, was serialized
C18_Witness ==
    /\ last.op = "Accumulator::to_bytes"
    /\ Cardinality(acc.members) >= 2
    /\ Len(to_bytes_be(acc.value)) < 2 * FACTOR_SIZE
    /\ Len(ret.bytes) = MIN_BYTES + MEMBER_SIZE * Cardinality(acc.members)

\* the member count the bytes in ret declare (bytes 5F .. 5F+3)
DeclaredCount == WireInt(5 * FACTOR_SIZE, 4)

\* the length of the bytes in ret is not the length of an accumulator of
\* the member count they declare
WrongLength ==
    \/ Len(ret.bytes) < MIN_BYTES
    \/ Len(ret.bytes) # MIN_BYTES + MEMBER_SIZE * DeclaredCount

\* C21: Accumulator::try_from returns an error if and only if the length of
\* its input is not MIN_BYTES + MEMBER_SIZE * (declared member count): input
\* too short for its declared count, and input with trailing bytes, are
\* refused with an error value, and no input makes it panic.
C21_WrongLengthIsAnError ==
    last.op = "Accumulator::try_from(data)"
        => /\ ret.err # "panic"
           /\ (ret.err # "") <=> WrongLength

(***************************************************************************)
(* Properties of the serialized proofs (checked under ProofSpec).          *)
(***************************************************************************)
\* C19: for every membership proof P, P.to_bytes() is 6 * FACTOR_SIZE +
\* MEMBER_SIZE bytes long (u, z, Q in 2 * FACTOR_SIZE bytes each, then r in
\* MEMBER_SIZE bytes), and MembershipProof::try_from(P.to_bytes()) succeeds
\* and returns a proof equal to P.
C19_MembershipProofRoundTrip ==
    /\ last.op = "MembershipProof::to_bytes"
          => /\ Len(ret.bytes) = 6 * FACTOR_SIZE + MEMBER_SIZE
             /\ WireInt(0, 2 * FACTOR_SIZE) = proof.mem.u
             /\ WireInt(2 * FACTOR_SIZE, 2 * FACTOR_SIZE) = proof.mem.z
             /\ WireInt(4 * FACTOR_SIZE, 2 * FACTOR_SIZE) = proof.mem.q
             /\ WireInt(6 * FACTOR_SIZE, MEMBER_SIZE) = proof.mem.r
    /\ last.op = "MembershipProof::try_from"
          => /\ ret.err = ""
             /\ ret.mem = proof.mem

\* C20: for every non-membership proof P, P.to_bytes() is 2 * FACTOR_SIZE +
\* 2 * (6 * FACTOR_SIZE + MEMBER_SIZE) bytes long, and
\* NonMembershipProof::try_from(P.to_bytes()) succeeds and returns a proof
\* equal to P (V^a, the proof for V without its u, the proof for g), also
\* when the remainder r of the proof for the signed coefficient a is
\* negative.
C20_NonMembershipProofRoundTrip ==
    /\ last.op = "NonMembershipProof::to_bytes"
          => Len(ret.bytes)
                = 2 * FACTOR_SIZE + 2 * (6 * FACTOR_SIZE + MEMBER_SIZE)
    /\ last.op = "NonMembershipProof::try_from"
          => /\ ret.err = ""
             /\ ret.nonmem = proof.nonmem

(***************************************************************************)
(* Properties of hash_to_prime (checked under HashSpec).                   *)
(***************************************************************************)
\* C22: for every byte string m, hash_to_prime(m) is odd, lies in
\* [2^(MEMBER_SIZE_BITS - 1), 2^MEMBER_SIZE_BITS) and passes the primality
\* test.
C22_PrimeImage ==
    hashing.pc = "done"
        => /\ hashing.num % 2 = 1
           /\ 2 ^ (MEMBER_SIZE_BITS - 1) <= hashing.num
           /\ hashing.num < 2 ^ MEMBER_SIZE_BITS
           /\ strong_check(hashing.num)

\* C23: hash_to_prime is a function of its input alone: its counter starts
\* at 1 and goes up by one per failed candidate, and it returns the candidate
\* (low half of the digest of m || i, lowest bit set) of the smallest counter
\* i >= 1 whose candidate passes the primality test.
C23_SmallestCounter ==
    /\ hashing.pc # "idle"
        => /\ hashing.i >= 1
           /\ \A j \in 1 .. (hashing.i - 1) :
                  ~strong_check(Candidate(hashing.input, j))
    /\ hashing.pc = "done"
        => /\ hashing.num = Candidate(hashing.input, hashing.i)
           /\ hashing.num % 2 = 1
           /\ strong_check(hashing.num)
           /\ hashing.num = hash_to_prime(hashing.input)

\* a call returned after at least one candidate failed
C23_Witness == hashing.pc = "done" /\ hashing.i > 1

(***************************************************************************)
(* Properties that relate the proofs to PoKE2 (checked under ProofSpec).   *)
(***************************************************************************)
\* what Poke2Proof::new(x, u, V, acc, nonce) returns for the witness (u, x)
\* the membership proof in hand was built from
Poke2OfWitness ==
    Poke2Proof_new(proof.wit.x, proof.wit.u, acc.value, acc, proof.nonce)

\* C24: MembershipProof::new(W, A, nonce) returns the tuple (u, z, Q, r) that
\* Poke2Proof::new(x, u, A.V, A, nonce) returns (with base g^nonce), and
\* MembershipProof::verify accepts exactly the tuples Poke2Proof::verify
\* accepts.
C24_MembershipProofIsPoke2 ==
    /\ last.op = "MembershipProof::new" => proof.mem = Poke2OfWitness
    /\ last.op = "MembershipProof::verify"
        => ret.ok = Poke2Proof_verify(proof.mem, acc, ArgNonce)

\* the proof P of the exponent x_in over base g, for the transcript value
\* `value`, stores a remainder r with 0 <= r < l and x_in = q * l + r, q being
\* the quotient Q was raised to
RemainderInRange(P, x_in, g, value) ==
    LET n == acc.modulus
        data == Transcript(g, n, value, P.u, P.z, proof.nonce)
        l == ChallengePrime(data)
        alpha == ChallengeAlpha(data, l)
        q == (x_in - P.r) \div l
    IN  /\ 0 <= P.r
        /\ P.r < l
        /\ x_in = q * l + P.r
        /\ P.q = Field_mul(n, Field_exp(n, P.u, q), Field_exp(n, g, alpha * q))

\* the base g^nonce of Poke2Proof
NonceBase == Field_exp(acc.modulus, acc.generator, from_bytes_be(proof.nonce))

C26_RsaMembershipProofComplete ==
    /\ last.op = "rsa::MembershipProof::new"
        => LET n == acc.modulus
               W == proof.wit
               data == to_vec(acc.generator) \o to_vec(n) \o to_vec(acc.value)
                         \o to_vec(W.u) \o to_vec(proof.mem.z) \o proof.nonce
               l == hash_to_prime(data)
               alpha == Blake2b(data \o to_vec(l))
               q == W.x \div l
           IN  proof.mem.q
                 = (modpow(W.u, q, n) * modpow(acc.generator, alpha * q, n)) % n
    /\ (last.op = "rsa::MembershipProof::verify" /\ ArgNonce = proof.nonce)
        => ret.ok

(***************************************************************************)
(* Properties of the constructors that take a prime (checked under         *)
(* WitnessSpec).                                                           *)
(***************************************************************************)
\* C27: a witness constructor that takes an already-prime value and returns
\* Ok returns a witness that satisfies its invariant: V^a * b_hat^x mod n = g
\* for NonMembershipWitness::new_prime, u^x mod n = V for
\* MembershipWitness::new_prime, whatever integer x it was given (a composite
\* that shares a factor with a member included).
C27_OkWitnessIsValid ==
    /\ (last.op = "NonMembershipWitness::new_prime" /\ last.err = "")
        => LET n == last.pre.modulus
               w == last.wit
           IN  (mod_exp(last.pre.value, w.a, n) * modpow(w.b, w.x, n)) % n
                  = last.pre.generator
    /\ (last.op = "MembershipWitness::new_prime" /\ last.err = "")
        => modpow(last.wit.u, last.wit.x, last.pre.modulus) = last.pre.value
====
